---- MODULE Spec2Model ----
(***************************************************************************)
(* Chariot Engine: the trade-loop matching pipeline of loop_matching.py    *)
(* (build_trade_graph, find_valid_loops, enrich_loops), the acceptance     *)
(* scan of simulate_trades.py (simulate_trade_loops) and the period driver *)
(* of run_periodic_simulation.py (run_multi_period_simulation).            *)
(*                                                                         *)
(* Money is an integer number of mills (1/1000 of a currency unit), so a   *)
(* value with two decimals is a multiple of 10.                            *)
(***************************************************************************)
EXTENDS Integers, Sequences, FiniteSets, TLC

(***************************************************************************)
(* Bounds of the model.                                                    *)
(***************************************************************************)
MaxUsers == 3
MaxInitialUsers == 4
MaxPeriods == 2
MaxPool == 4
MaxLoops == 3
MaxScored == 3
MaxMatchUsers == 4
MaxRoundUsers == 3
MaxRounds == 3

\* growth rates of the configuration, in percent
GrowthRates == {0, 40}

\* attribute domains of the user tables the matching pipeline is run on
Watches == {"X", "Y", "Z"}
Values == {100000, 110000}
Floors == {100000, 105000}
TopUps == {5000, 10000}

\* relative_fairness_score of the candidate rows the weights are chosen for and
\* value_efficiency of a cycle, in 1/10000; NaN stands for a missing score
NaN == 0 - 1
FairnessScores == {7400, 7888, 8509, 9000, NaN}
Efficiencies == {7999, 8000, 8338, 8600, 8980}

VARIABLES
    \* ---- loop_matching.py pipeline ----
    df,          \* the user table: row index (0-based) -> user record
    G,           \* edges of the nx.DiGraph, a set of <<i, j>>
    raw_loops,   \* the list returned by find_valid_loops
    enriched,    \* the rows returned by enrich_loops
    stage,       \* position in the pipeline
    \* ---- run_multi_period_simulation ----
    config,            \* initial_users, growth_rate (percent), num_periods
    period,            \* the loop variable of "for period in range(num_periods)"
    pc,                \* position of the driver
    carried_users_df,  \* user ids carried into the next period
    period_users_df,   \* user ids of the period's pool
    period_summaries,  \* one record per completed period
    executed_files,    \* period number -> rows of period_<k>/executed_loops.csv
    summary_file,      \* <<rows of period_summary.csv>> once written, else <<>>
    users_files,       \* period number -> user ids of period_<k>_users.csv
    user_trade_log,
    user_history_tracker,
    \* ---- simulate_trade_loops ----
    filtered_loops,    \* the candidate rows the scan iterates over
    row_idx,           \* number of rows the scan has passed
    user_status,
    decisions,         \* the draws of the row last considered
    executed_loops,
    rejected_loops,
    trade_counter,
    quartiles,         \* <<q1, q2, q3>> of the fairness column, times 4
    weights,           \* the [decline, accept] weights of the rows considered, in 1/100
    \* ---- get_trade_weights called on its own ----
    call_args,         \* [fairness_score, value_efficiency] of the call
    \* ---- a run of the driver repeated with the same configuration ----
    first_run,         \* <<>>, or <<the output tables of the first run>>
    \* ---- match_trades.find_matches ----
    matches,
    available_users,
    \* ---- src_legacy/simulate_round.py ----
    current_users_df,  \* the rows of the available users, re-indexed
    valid_loops,       \* the loops of the round, in the order they are scanned
    round_counter

matchVars == <<df, G, raw_loops, enriched, stage>>
simVars == <<filtered_loops, row_idx, user_status, decisions, executed_loops,
             rejected_loops, trade_counter, quartiles, weights>>
driverVars == <<config, period, pc, carried_users_df, period_users_df,
                period_summaries, executed_files, summary_file, users_files,
                user_trade_log, user_history_tracker>>
unitVars == <<call_args, first_run, matches, available_users,
              current_users_df, valid_loops, round_counter>>
vars == <<matchVars, driverVars, simVars, unitVars>>

\* the values of the variables a specification does not use
SimIdle ==
    /\ filtered_loops = <<>>
    /\ row_idx = 0
    /\ user_status = <<>>
    /\ decisions = <<>>
    /\ executed_loops = <<>>
    /\ rejected_loops = <<>>
    /\ trade_counter = 0
    /\ quartiles = <<>>
    /\ weights = <<>>

DriverIdle(position) ==
    /\ period = 0
    /\ pc = position
    /\ carried_users_df = <<>>
    /\ period_users_df = <<>>
    /\ period_summaries = <<>>
    /\ executed_files = <<>>
    /\ summary_file = <<>>
    /\ users_files = <<>>
    /\ user_trade_log = <<>>
    /\ user_history_tracker = <<>>

UnitIdle ==
    /\ call_args = <<>>
    /\ first_run = <<>>
    /\ matches = <<>>
    /\ available_users = {}
    /\ current_users_df = <<>>
    /\ valid_loops = <<>>
    /\ round_counter = 0

MatchIdle ==
    /\ df = <<>>
    /\ G = {}
    /\ raw_loops = <<>>
    /\ enriched = <<>>
    /\ stage = "idle"

(***************************************************************************)
(* Lists.  Python lists that are indexed arithmetically are functions on   *)
(* 0..n-1; lists that are only appended to and iterated are sequences.     *)
(***************************************************************************)
List(s) == [t \in 0..(Len(s) - 1) |-> s[t + 1]]
len(l) == Cardinality(DOMAIN l)

RECURSIVE Sum(_, _)
Sum(l, n) == IF n = 0 THEN 0 ELSE l[n - 1] + Sum(l, n - 1)

abs(x) == IF x < 0 THEN 0 - x ELSE x

\* Python round(x, 2) on an amount in mills: nearest multiple of 10, ties to even
round2(x) ==
    LET q == x \div 10
        r == x % 10
    IN  IF r < 5 THEN 10 * q
        ELSE IF r > 5 THEN 10 * (q + 1)
        ELSE IF q % 2 = 0 THEN 10 * q ELSE 10 * (q + 1)

\* the ascending sequence of a finite set of integers (dict insertion order
\* of nodes 0..n-1 and of the neighbours added for ascending j)
RECURSIVE Ascending(_)
Ascending(S) ==
    IF S = {} THEN <<>>
    ELSE LET m == CHOOSE x \in S : \A y \in S : x <= y
         IN  <<m>> \o Ascending(S \ {m})

(***************************************************************************)
(* generate_users.py: the user ids U{period:03d}_{index:05d}               *)
(***************************************************************************)
user_id(p, index) == <<p, index>>

(***************************************************************************)
(* build_trade_graph                                                       *)
(***************************************************************************)
\* the boolean mask of row i over all rows j (lines 101-105)
valid_trades_no_floor(d, i) ==
    {j \in DOMAIN d :
        /\ d[i].have_watch # d[j].have_watch
        /\ d[i].have_value - d[j].have_value <= d[j].max_cash_top_up}

valid_trades_strict(d, i) ==
    {j \in DOMAIN d :
        /\ d[i].have_value > d[j].min_acceptable_item_value
        /\ d[i].have_watch # d[j].have_watch
        /\ d[i].have_value - d[j].have_value <= d[j].max_cash_top_up}

valid_trades(d, i) ==
    {j \in DOMAIN d :
        /\ d[i].have_value >= d[j].min_acceptable_item_value
        /\ d[i].have_watch # d[j].have_watch
        /\ d[i].have_value - d[j].have_value <= d[j].max_cash_top_up}

\* edges = [(i, j) for j in np.where(valid_trades)[0] if i != j]
edges(d, i) == {<<i, j>> : j \in {k \in valid_trades(d, i) : i # k}}

build_trade_graph(d) == UNION {edges(d, i) : i \in DOMAIN d}

has_edge(g, u, v) == <<u, v>> \in g
successors(g, a) == Ascending({e[2] : e \in {x \in g : x[1] = a}})

\* G.edges(): every node in insertion order, its neighbours in insertion order
RECURSIVE edge_list_from(_, _)
edge_list_from(g, nodes) ==
    IF nodes = <<>> THEN <<>>
    ELSE LET a == Head(nodes)
             succ == successors(g, a)
         IN  [k \in 1..Len(succ) |-> <<a, succ[k]>>] \o edge_list_from(g, Tail(nodes))

(***************************************************************************)
(* find_valid_loops                                                        *)
(***************************************************************************)
two_way_both_orders(g, u, v) == has_edge(g, v, u)

\* the condition of line 146
two_way_ok(g, u, v) == has_edge(g, v, u) /\ u < v

three_way_unclosed(g, a, b, c) == a < b /\ b < c /\ Cardinality({a, b, c}) = 3

three_way_any_rotation(g, a, b, c) == has_edge(g, c, a) /\ Cardinality({a, b, c}) = 3

\* the conditions of lines 153-154
three_way_ok(g, a, b, c) ==
    /\ has_edge(g, c, a) /\ a < b /\ b < c
    /\ Cardinality({a, b, c}) = 3

RECURSIVE two_way_loops(_, _)
two_way_loops(g, es) ==
    IF es = <<>> THEN <<>>
    ELSE LET u == Head(es)[1]
             v == Head(es)[2]
         IN  (IF two_way_ok(g, u, v)
                THEN <<[indexes |-> List(<<u, v>>), loop_type |-> "2-way"]>>
                ELSE <<>>)
             \o two_way_loops(g, Tail(es))

RECURSIVE three_way_c(_, _, _, _)
three_way_c(g, a, b, cs) ==
    IF cs = <<>> THEN <<>>
    ELSE LET c == Head(cs)
         IN  (IF three_way_ok(g, a, b, c)
                THEN <<[indexes |-> List(<<a, b, c>>), loop_type |-> "3-way"]>>
                ELSE <<>>)
             \o three_way_c(g, a, b, Tail(cs))

RECURSIVE three_way_b(_, _, _)
three_way_b(g, a, bs) ==
    IF bs = <<>> THEN <<>>
    ELSE three_way_c(g, a, Head(bs), successors(g, Head(bs)))
         \o three_way_b(g, a, Tail(bs))

RECURSIVE three_way_a(_, _)
three_way_a(g, nodes) ==
    IF nodes = <<>> THEN <<>>
    ELSE three_way_b(g, Head(nodes), successors(g, Head(nodes)))
         \o three_way_a(g, Tail(nodes))

find_valid_loops(d, g) ==
    LET nodes == Ascending(DOMAIN d)
    IN  two_way_loops(g, edge_list_from(g, nodes)) \o three_way_a(g, nodes)

(***************************************************************************)
(* enrich_loops                                                            *)
(***************************************************************************)
cash_flows_skip_seat(values, n) ==
    [i \in 0..(n - 1) |-> round2(values[i] - values[(i + 2) % n])]

\* line 198
cash_flows_of(values, n) ==
    [i \in 0..(n - 1) |-> round2(values[i] - values[(i + 1) % n])]

\* line 199
received_of(watches, n) == [i \in 0..(n - 1) |-> watches[(i + 1) % n]]

enrich_row(d, loop, loop_id_num) ==
    LET idxs == loop.indexes
        n == len(idxs)
        users == [t \in 0..(n - 1) |-> d[idxs[t]].user_id]
        watches == [t \in 0..(n - 1) |-> d[idxs[t]].have_watch]
        values == [t \in 0..(n - 1) |-> d[idxs[t]].have_value]
        cash_flows == cash_flows_of(values, n)
        received == received_of(watches, n)
    IN  [loop_id |-> loop_id_num,
         loop_type |-> loop.loop_type,
         total_watch_value |-> round2(Sum(values, n)),
         total_cash_flow |-> round2(Sum([i \in 0..(n - 1) |-> abs(cash_flows[i])], n)),
         trade_id |-> loop_id_num,
         indexes |-> idxs,
         user |-> users,
         watch |-> watches,
         value |-> values,
         received_watch |-> received,
         cash_flow |-> cash_flows]

enrich_loops(d, loops) == [k \in 1..Len(loops) |-> enrich_row(d, loops[k], k)]

(***************************************************************************)
(* The pipeline build_trade_graph -> find_valid_loops -> enrich_loops run  *)
(* on every user table of at most MaxUsers rows.                           *)
(***************************************************************************)
\* Watch names are only ever compared for equality, so the tables are
\* enumerated up to renaming of the watches: the watches of a table appear in
\* the order X, Y, Z of their first occurrence.
WatchNo == [w \in Watches |-> CASE w = "X" -> 1 [] w = "Y" -> 2 [] OTHER -> 3]

WatchColumns(n) ==
    {w \in [0..(n - 1) -> Watches] :
        \A i \in 0..(n - 1) :
            \/ WatchNo[w[i]] = 1
            \/ \E k \in 0..(i - 1) : WatchNo[w[k]] >= WatchNo[w[i]] - 1}

UserRows(n) ==
    [0..(n - 1) -> [have_value : Values, min_acceptable_item_value : Floors,
                    max_cash_top_up : TopUps]]

UserTable(w, t) ==
    [i \in DOMAIN t |->
        [user_id |-> user_id(1, i + 1),
         have_watch |-> w[i],
         have_value |-> t[i].have_value,
         min_acceptable_item_value |-> t[i].min_acceptable_item_value,
         max_cash_top_up |-> t[i].max_cash_top_up]]

\* the user table of scenario S3 (amounts in mills), in every row order
S3Users ==
    <<[user_id |-> user_id(1, 1), have_watch |-> "X", have_value |-> 100000,
       min_acceptable_item_value |-> 90000, max_cash_top_up |-> 30000],
      [user_id |-> user_id(1, 2), have_watch |-> "Y", have_value |-> 120000,
       min_acceptable_item_value |-> 95000, max_cash_top_up |-> 30000],
      [user_id |-> user_id(1, 3), have_watch |-> "Z", have_value |-> 110000,
       min_acceptable_item_value |-> 125000, max_cash_top_up |-> 30000]>>

S3Tables ==
    {[i \in 0..2 |-> S3Users[order[i]]] :
        order \in {o \in [0..2 -> 1..3] : \A i, j \in 0..2 : o[i] = o[j] => i = j}}

MatchInit ==
    /\ \/ \E n \in 0..MaxUsers :
             \E w \in WatchColumns(n), t \in UserRows(n) : df = UserTable(w, t)
       \/ df \in S3Tables
    /\ G = {}
    /\ raw_loops = <<>>
    /\ enriched = <<>>
    /\ stage = "loaded"
    /\ config = [initial_users |-> 0, growth_rate |-> 0, num_periods |-> 0]
    /\ DriverIdle("idle")
    /\ SimIdle
    /\ UnitIdle

BuildTradeGraph ==
    /\ stage = "loaded"
    /\ G' = build_trade_graph(df)
    /\ stage' = "graph"
    /\ UNCHANGED <<df, raw_loops, enriched>>
    /\ UNCHANGED <<driverVars, simVars, unitVars>>

FindValidLoops ==
    /\ stage = "graph"
    /\ raw_loops' = find_valid_loops(df, G)
    /\ stage' = "loops"
    /\ UNCHANGED <<df, G, enriched>>
    /\ UNCHANGED <<driverVars, simVars, unitVars>>

EnrichLoops ==
    /\ stage = "loops"
    /\ enriched' = enrich_loops(df, raw_loops)
    /\ stage' = "enriched"
    /\ UNCHANGED <<df, G, raw_loops>>
    /\ UNCHANGED <<driverVars, simVars, unitVars>>


(***************************************************************************)
(* The period driver (run_multi_period_simulation) and the acceptance scan *)
(* it calls every period (simulate_trade_loops).                           *)
(***************************************************************************)
Min(a, b) == IF a < b THEN a ELSE b

RECURSIVE Pow(_, _)
Pow(b, e) == IF e = 0 THEN 1 ELSE b * Pow(b, e - 1)

\* the trade_counter the driver hands to the scan of period p (0-based)
PeriodStride == 1000
\* the cap of run_loop_matching on the number of loops asked for
LoopCap == 1000

new_user_count_rounded(cfg, p) ==
    ((2 * cfg.initial_users * Pow(100 + cfg.growth_rate, p)) + Pow(100, p))
        \div (2 * Pow(100, p))

\* int(initial_users * ((1 + growth_rate) ** period)), growth_rate in percent
new_user_count(cfg, p) ==
    (cfg.initial_users * Pow(100 + cfg.growth_rate, p)) \div Pow(100, p)

\* the ids of the users generated for period p (1-based), in row order
generate_users_for_period(num_users, p) == [i \in 1..num_users |-> user_id(p, i)]

\* lexicographic order of the ids U{period:03d}_{index:05d}
UserLess(u, v) == u[1] < v[1] \/ (u[1] = v[1] /\ u[2] < v[2])

Range(s) == {s[k] : k \in 1..Len(s)}

\* "T{n:05d}", and the number it carries
format_trade_id(n) == <<"T", n>>
trade_number(t) == t[2]

\* json.dumps of a list of ids, and eval of that text
json_dumps(l) == <<"json", l>>
eval_users(text) == text[2]

(* chariot_engine_core.TradeGraph.find_loops is not part of the sources: the
   rows it can return are taken to be any list of at most max_loops candidate
   cycles over the period's users, each a 2-cycle or a 3-cycle of distinct
   users in ascending order of their ids (the one orientation the enumerator
   emits), in the wide layout (loop_id, loop_type, user_1..user_3); a
   cycle may be listed more than once. *)
Cycles(users) ==
    {c \in users \X users : UserLess(c[1], c[2])}
    \cup {c \in users \X users \X users :
            UserLess(c[1], c[2]) /\ UserLess(c[2], c[3])}

loop_row(cycle, k) ==
    [loop_id |-> k,
     loop_type |-> IF Len(cycle) = 2 THEN "2-way" ELSE "3-way",
     user |-> cycle]

find_loops(users, n) == {[k \in 1..n |-> loop_row(l[k], k)] : l \in [1..n -> Cycles(users)]}

\* max_loops = min(1000, n_users * 2)
max_loops(n_users) == Min(LoopCap, n_users * 2)

\* loop_users of a row: user_1..user_3 that are not NaN
loop_users_of(row) == row.user

all_available_any(status, loop_users) ==
    \E k \in 1..Len(loop_users) : status[loop_users[k]] = "available"

\* line 111
all_available(status, loop_users) ==
    \A k \in 1..Len(loop_users) : status[loop_users[k]] = "available"

\* line 90: a user the table does not hold counts as matched
row_valid(status, row) ==
    \A k \in 1..Len(loop_users_of(row)) :
        LET u == loop_users_of(row)[k]
        IN  (IF u \in DOMAIN status THEN status[u] ELSE "matched") = "available"

unanimous_any(d, loop_users) == \E k \in 1..Len(loop_users) : d[loop_users[k]] = "accept"

\* line 173
unanimous(d, loop_users) == \A k \in 1..Len(loop_users) : d[loop_users[k]] = "accept"

\* lines 132-137: the row with users, trade_id and period_executed set and
\* loop_id removed
loop_record(row, loop_users, trade_id, p) ==
    LET cols == (DOMAIN row \cup {"users", "trade_id", "period_executed"}) \ {"loop_id"}
    IN  [c \in cols |->
            CASE c = "users" -> json_dumps(loop_users)
              [] c = "trade_id" -> trade_id
              [] c = "period_executed" -> p
              [] OTHER -> row[c]]

next_counter_stuck(c) == c

\* line 193
next_counter(c) == c + 1

\* lines 139-145: setdefault and offered += 1 for every member
RECURSIVE offer(_, _, _)
offer(tracker, loop_users, p) ==
    IF loop_users = <<>> THEN tracker
    ELSE LET u == Head(loop_users)
             old == IF u \in DOMAIN tracker THEN tracker[u]
                    ELSE [offered |-> 0, accepted |-> FALSE,
                          first_seen_period |-> p, exit_period |-> 0]
             t1 == [x \in DOMAIN tracker \cup {u} |->
                       IF x = u THEN [old EXCEPT !.offered = @ + 1] ELSE tracker[x]]
         IN  offer(t1, Tail(loop_users), p)

\* lines 147-171: one log row per member
log_rows(loop_users, trade_id, d, p) ==
    [k \in 1..Len(loop_users) |->
        [user_id |-> loop_users[k],
         trade_id |-> trade_id,
         user_sub_id |-> <<trade_id, k>>,
         period_number |-> p,
         decision |-> d[loop_users[k]]]]

mark_matched_first(status, loop_users) ==
    [u \in DOMAIN status |-> IF u = loop_users[1] THEN "matched" ELSE status[u]]

\* lines 174-175: every member of the row becomes matched
mark_matched(status, loop_users) ==
    [u \in DOMAIN status |-> IF u \in Range(loop_users) THEN "matched" ELSE status[u]]

mark_declined_none(status, d) == status

mark_declined_all(status, d) ==
    [u \in DOMAIN status |-> IF u \in DOMAIN d THEN "declined" ELSE status[u]]

\* lines 184-186: every member that drew decline becomes declined
mark_declined(status, d) ==
    [u \in DOMAIN status |->
        IF u \in DOMAIN d /\ d[u] = "decline" THEN "declined" ELSE status[u]]

\* lines 174-180
accept_all(tracker, loop_users, p) ==
    [x \in DOMAIN tracker |->
        IF x \in Range(loop_users)
        THEN [tracker[x] EXCEPT !.accepted = TRUE, !.exit_period = p]
        ELSE tracker[x]]

\* the configurations run: the users admitted over the periods, before
\* growth, are at most MaxPool
Configs ==
    {c \in [initial_users : 1..MaxInitialUsers, growth_rate : GrowthRates,
            num_periods : 1..MaxPeriods] :
        c.initial_users * c.num_periods <= MaxPool}

\* lines 11-30
Init ==
    /\ config \in Configs
    /\ DriverIdle("period_start")
    /\ SimIdle
    /\ MatchIdle
    /\ UnitIdle

\* lines 32-71 of the driver and 77-107 of the scan: admit, pool, match, and
\* enter the scan with every user available
StartPeriod ==
    /\ pc = "period_start"
    /\ period < config.num_periods
    /\ LET new_users_df ==
               generate_users_for_period(new_user_count(config, period), period + 1)
           pool == carried_users_df \o new_users_df
           status == [u \in Range(pool) |-> "available"]
       IN  /\ period_users_df' = pool
           /\ users_files' = Append(users_files, pool)
           /\ \E n \in 1..Min(max_loops(Len(pool)), MaxLoops) :
                 \E loops_df \in find_loops(Range(pool), n) :
                     filtered_loops' =
                         SelectSeq(loops_df, LAMBDA row : row_valid(status, row))
           /\ user_status' = status
    /\ row_idx' = 0
    /\ decisions' = <<>>
    /\ executed_loops' = <<>>
    /\ rejected_loops' = <<>>
    /\ trade_counter' = period * PeriodStride
    /\ UNCHANGED <<quartiles, weights>>
    /\ pc' = "scan"
    /\ UNCHANGED <<config, period, carried_users_df, period_summaries,
                   executed_files, summary_file, user_trade_log,
                   user_history_tracker>>
    /\ UNCHANGED <<matchVars, unitVars>>

\* run_loop_matching writes an empty file when no loop is found (lines
\* 256-260) and pd.read_csv of it raises EmptyDataError at line 78 of the scan
StartPeriodNoLoops ==
    /\ pc = "period_start"
    /\ period < config.num_periods
    /\ LET pool == carried_users_df
                       \o generate_users_for_period(new_user_count(config, period),
                                                    period + 1)
       IN  /\ period_users_df' = pool
           /\ users_files' = Append(users_files, pool)
    /\ pc' = "crashed"
    /\ UNCHANGED <<config, period, carried_users_df, period_summaries,
                   executed_files, summary_file, user_trade_log,
                   user_history_tracker>>
    /\ UNCHANGED <<simVars, matchVars, unitVars>>

\* lines 109-112: a row with a member that is not available is passed over
SkipRow ==
    /\ pc = "scan"
    /\ row_idx < Len(filtered_loops)
    /\ ~all_available(user_status, loop_users_of(filtered_loops[row_idx + 1]))
    /\ row_idx' = row_idx + 1
    /\ UNCHANGED <<filtered_loops, user_status, decisions, executed_loops,
                   rejected_loops, trade_counter, quartiles, weights>>
    /\ UNCHANGED <<driverVars, matchVars, unitVars>>

\* lines 109-193: the members draw, the row is logged and executed or rejected
DecideRow ==
    /\ pc = "scan"
    /\ row_idx < Len(filtered_loops)
    /\ LET row == filtered_loops[row_idx + 1]
           loop_users == loop_users_of(row)
       IN  /\ all_available(user_status, loop_users)
           /\ \E d \in [Range(loop_users) -> {"accept", "decline"}] :
                 LET trade_id == format_trade_id(trade_counter + 1)
                     record == loop_record(row, loop_users, trade_id, period + 1)
                     offered == offer(user_history_tracker, loop_users, period + 1)
                 IN  /\ decisions' = d
                     /\ user_trade_log' =
                            user_trade_log
                                \o log_rows(loop_users, trade_id, d, period + 1)
                     /\ IF unanimous(d, loop_users)
                        THEN /\ user_status' = mark_matched(user_status, loop_users)
                             /\ user_history_tracker' =
                                    accept_all(offered, loop_users, period + 1)
                             /\ executed_loops' = Append(executed_loops, record)
                             /\ UNCHANGED rejected_loops
                        ELSE /\ user_status' = mark_declined(user_status, d)
                             /\ user_history_tracker' = offered
                             /\ rejected_loops' = Append(rejected_loops, record)
                             /\ UNCHANGED executed_loops
    /\ trade_counter' = next_counter(trade_counter)
    /\ row_idx' = row_idx + 1
    /\ UNCHANGED <<filtered_loops, config, period, pc, carried_users_df,
                   period_users_df, period_summaries, executed_files, summary_file,
                   users_files, quartiles, weights>>
    /\ UNCHANGED <<matchVars, unitVars>>

\* lines 132-134 of the driver: the rows of executed_loops.csv with a trade id
valid_trades_of(exec_df) == SelectSeq(exec_df, LAMBDA r : r.trade_id # "N/A")

count_type(rows, t) == Cardinality({k \in 1..Len(rows) : rows[k].loop_type = t})

\* line 143 over all rows
matched_users_of(rows) == UNION {Range(eval_users(rows[k].users)) : k \in 1..Len(rows)}

\* lines 145-148: row['loop_id'] is read for every user of every row
raises_KeyError(rows) ==
    \E k \in 1..Len(rows) :
        /\ eval_users(rows[k].users) # <<>>
        /\ "loop_id" \notin DOMAIN rows[k]

carry_over_tail(pool, matched_users) ==
    Tail(SelectSeq(pool, LAMBDA u : u \notin matched_users))

\* line 167
carry_over(pool, matched_users) == SelectSeq(pool, LAMBDA u : u \notin matched_users)

period_summary_new_only(p, users_at_start, new_count, total_pool, rows, matched_users) ==
    LET trades_2way == count_type(rows, "2-way")
        trades_3way == count_type(rows, "3-way")
        expected_matched == (trades_2way * 2) + (trades_3way * 3)
    IN  [Period |-> p + 1,
         StartUsers |-> users_at_start,
         NewUsers |-> new_count,
         TotalPool |-> total_pool,
         Trades2Way |-> trades_2way,
         Trades3Way |-> trades_3way,
         TotalTrades |-> trades_2way + trades_3way,
         UsersMatched |-> expected_matched,
         EndUsers |-> new_count - expected_matched]

\* lines 152-184
period_summary(p, users_at_start, new_count, total_pool, rows, matched_users) ==
    LET trades_2way == count_type(rows, "2-way")
        trades_3way == count_type(rows, "3-way")
        expected_matched == (trades_2way * 2) + (trades_3way * 3)
        users_matched == IF Cardinality(matched_users) # expected_matched
                         THEN expected_matched ELSE Cardinality(matched_users)
    IN  [Period |-> p + 1,
         StartUsers |-> users_at_start,
         NewUsers |-> new_count,
         TotalPool |-> total_pool,
         Trades2Way |-> trades_2way,
         Trades3Way |-> trades_3way,
         TotalTrades |-> trades_2way + trades_3way,
         UsersMatched |-> users_matched,
         EndUsers |-> total_pool - users_matched]

\* lines 195-208 of the scan and 121-184 of the driver: the logs are written,
\* read back, the period is summarised and the unmatched users carried over
FinishPeriod ==
    /\ pc = "scan"
    /\ row_idx = Len(filtered_loops)
    /\ LET rows == valid_trades_of(executed_loops)
           matched_users == matched_users_of(rows)
       IN  /\ ~raises_KeyError(rows)
           /\ carried_users_df' = carry_over(period_users_df, matched_users)
           /\ period_summaries' =
                  Append(period_summaries,
                         period_summary(period, Len(carried_users_df),
                                        new_user_count(config, period),
                                        Len(period_users_df), rows, matched_users))
    /\ executed_files' = Append(executed_files, executed_loops)
    /\ period' = period + 1
    /\ pc' = "period_start"
    /\ UNCHANGED <<config, period_users_df, summary_file, users_files,
                   user_trade_log, user_history_tracker>>
    /\ UNCHANGED <<simVars, matchVars, unitVars>>

\* the same, when an executed row is read back: loop_id was removed from the
\* record at line 137 of the scan, and line 148 of the driver raises KeyError
FinishPeriodKeyError ==
    /\ pc = "scan"
    /\ row_idx = Len(filtered_loops)
    /\ raises_KeyError(valid_trades_of(executed_loops))
    /\ executed_files' = Append(executed_files, executed_loops)
    /\ pc' = "crashed"
    /\ UNCHANGED <<config, period, carried_users_df, period_users_df,
                   period_summaries, summary_file, users_files, user_trade_log,
                   user_history_tracker>>
    /\ UNCHANGED <<simVars, matchVars, unitVars>>

\* lines 196-218
SaveSummary ==
    /\ pc = "period_start"
    /\ period = config.num_periods
    /\ summary_file' = <<period_summaries>>
    /\ pc' = "done"
    /\ UNCHANGED <<config, period, carried_users_df, period_users_df,
                   period_summaries, executed_files, users_files, user_trade_log,
                   user_history_tracker>>
    /\ UNCHANGED <<simVars, matchVars, unitVars>>

Next ==
    \/ StartPeriod
    \/ StartPeriodNoLoops
    \/ SkipRow
    \/ DecideRow
    \/ FinishPeriod
    \/ FinishPeriodKeyError
    \/ SaveSummary

Spec == Init /\ [][Next]_vars

(***************************************************************************)
(* The driver run a second time with the configuration of the first run.   *)
(* Neither the configuration (lines 15-18) nor the scan has a seed, and    *)
(* random.choices (line 128 of the scan) draws from the unseeded module    *)
(* generator, so the second run is a run like any other.                   *)
(***************************************************************************)
RerunConfigs == {c \in Configs : c.initial_users = 2 /\ c.num_periods = 1}

RerunInit ==
    /\ config \in RerunConfigs
    /\ DriverIdle("period_start")
    /\ SimIdle
    /\ MatchIdle
    /\ UnitIdle

\* the output tables of the run that ended, and the candidate rows its scan
\* was given
run_outputs ==
    [candidates |-> filtered_loops,
     executed_loops |-> executed_files,
     rejected_loops |-> rejected_loops,
     period_summary |-> summary_file,
     decisions |-> [k \in 1..Len(user_trade_log) |-> user_trade_log[k].decision]]

\* run_multi_period_simulation is called again: lines 11-30
RunAgain ==
    /\ pc \in {"done", "crashed"}
    /\ first_run = <<>>
    /\ first_run' = <<run_outputs>>
    /\ period' = 0
    /\ pc' = "period_start"
    /\ carried_users_df' = <<>>
    /\ period_users_df' = <<>>
    /\ period_summaries' = <<>>
    /\ executed_files' = <<>>
    /\ summary_file' = <<>>
    /\ users_files' = <<>>
    /\ user_trade_log' = <<>>
    /\ user_history_tracker' = <<>>
    /\ filtered_loops' = <<>>
    /\ row_idx' = 0
    /\ user_status' = <<>>
    /\ decisions' = <<>>
    /\ executed_loops' = <<>>
    /\ rejected_loops' = <<>>
    /\ trade_counter' = 0
    /\ UNCHANGED <<config, quartiles, weights, call_args, matches, available_users,
                   current_users_df, valid_loops, round_counter>>
    /\ UNCHANGED matchVars

RerunNext == Next \/ RunAgain

RerunSpec == RerunInit /\ [][RerunNext]_vars

(***************************************************************************)
(* match_trades.py: find_matches and find_next_match.                      *)
(***************************************************************************)
is_valid_two_way_trade_one_sided(user1, user2) ==
    user2.have_value >= user1.min_acceptable_item_value

\* lines 70-76
is_valid_two_way_trade(user1, user2) ==
    LET user1_accepts == user2.have_value >= user1.min_acceptable_item_value
        user2_accepts == user1.have_value >= user2.min_acceptable_item_value
    IN  user1_accepts /\ user2_accepts

\* lines 78-91
is_valid_three_way_trade(user1, user2, user3) ==
    LET cycle1 == /\ user2.have_value >= user1.min_acceptable_item_value
                  /\ user3.have_value >= user2.min_acceptable_item_value
                  /\ user1.have_value >= user3.min_acceptable_item_value
        cycle2 == /\ user3.have_value >= user1.min_acceptable_item_value
                  /\ user1.have_value >= user2.min_acceptable_item_value
                  /\ user2.have_value >= user3.min_acceptable_item_value
    IN  cycle1 \/ cycle2

\* users_df[users_df['user_id'].isin(available_users)] (line 25)
isin(d, available) == {i \in DOMAIN d : d[i].user_id \in available}

\* the list `matches` of find_next_match (lines 38-60), from which
\* random.choice takes the match it returns; empty when it returns []
find_next_match(d, available) ==
    LET rows == isin(d, available)
    IN  {<<d[i].user_id, d[j].user_id>> :
            <<i, j>> \in {x \in rows \X rows :
                /\ UserLess(d[x[1]].user_id, d[x[2]].user_id)
                /\ is_valid_two_way_trade(d[x[1]], d[x[2]])}}
        \cup
        {<<d[x[1]].user_id, d[x[2]].user_id, d[x[3]].user_id>> :
            x \in {y \in rows \X rows \X rows :
                /\ UserLess(d[y[1]].user_id, d[y[2]].user_id)
                /\ UserLess(d[y[2]].user_id, d[y[3]].user_id)
                /\ UserLess(d[y[1]].user_id, d[y[3]].user_id)
                /\ is_valid_three_way_trade(d[y[1]], d[y[2]], d[y[3]])}}

\* a call of find_matches on a table of at most MaxMatchUsers users with
\* unique ids; lines 20-21
FindInit ==
    /\ \E n \in 0..MaxMatchUsers :
          \E t \in [0..(n - 1) -> [have_value : Values,
                                   min_acceptable_item_value : Floors]] :
              /\ df = [i \in 0..(n - 1) |->
                          [user_id |-> user_id(1, i + 1),
                           have_value |-> t[i].have_value,
                           min_acceptable_item_value |->
                               t[i].min_acceptable_item_value]]
              /\ available_users = {user_id(1, i + 1) : i \in 0..(n - 1)}
    /\ matches = <<>>
    /\ G = {}
    /\ raw_loops = <<>>
    /\ enriched = <<>>
    /\ stage = "idle"
    /\ call_args = <<>>
    /\ first_run = <<>>
    /\ current_users_df = <<>>
    /\ valid_loops = <<>>
    /\ round_counter = 0
    /\ config = [initial_users |-> 0, growth_rate |-> 0, num_periods |-> 0]
    /\ DriverIdle("find_matches")
    /\ SimIdle

\* one pass of the while loop that finds a match: lines 23-31
FindNextMatch ==
    /\ pc = "find_matches"
    /\ Cardinality(available_users) >= 2
    /\ \E match \in find_next_match(df, available_users) :
          /\ matches' = Append(matches, match)
          /\ available_users' = available_users \ Range(match)
    /\ UNCHANGED <<call_args, first_run, current_users_df, valid_loops,
                   round_counter>>
    /\ UNCHANGED <<matchVars, driverVars, simVars>>

\* the loop ends, by its condition (line 23) or by the break (lines 27-28),
\* and the matches are returned (line 33)
ReturnMatches ==
    /\ pc = "find_matches"
    /\ \/ Cardinality(available_users) < 2
       \/ find_next_match(df, available_users) = {}
    /\ pc' = "returned"
    /\ UNCHANGED <<config, period, carried_users_df, period_users_df,
                   period_summaries, executed_files, summary_file, users_files,
                   user_trade_log, user_history_tracker>>
    /\ UNCHANGED <<matchVars, simVars, unitVars>>

FindNext == FindNextMatch \/ ReturnMatches

\* the interpreter keeps running the loop
FindMatchesSpec == FindInit /\ [][FindNext]_vars /\ WF_vars(FindNext)

(***************************************************************************)
(* src_legacy/simulate_round.py: the round loop of the script.             *)
(***************************************************************************)
\* lines 30-31: the rows of the available users, re-indexed from 0
reset_index(d, status) ==
    LET rows == Ascending({i \in DOMAIN d : status[d[i].user_id] = "available"})
    IN  [k \in 0..(Len(rows) - 1) |-> d[rows[k + 1]]]

\* lines 38-47
round_graph(cur) ==
    {e \in (DOMAIN cur) \X (DOMAIN cur) :
        LET giver == cur[e[1]]
            receiver == cur[e[2]]
        IN  /\ ~(e[1] = e[2] \/ giver.have_watch = receiver.have_watch)
            /\ ~(giver.have_value < receiver.min_acceptable_item_value)
            /\ ~(giver.have_value - receiver.have_value > receiver.max_cash_top_up)}

\* line 51: the edges (u, v) that give a 2-way loop
round_two_way(g) == {e \in g : has_edge(g, e[2], e[1]) /\ e[1] < e[2]}

\* lines 74-79: the triples (a, b, c) that give a 3-way loop
round_three_way(g, nodes) ==
    {t \in nodes \X nodes \X nodes :
        /\ has_edge(g, t[1], t[2]) /\ has_edge(g, t[2], t[3])
        /\ has_edge(g, t[3], t[1])
        /\ t[1] < t[2] /\ t[2] < t[3]
        /\ Cardinality({t[1], t[2], t[3]}) = 3}

\* the order in which the loops are appended to valid_loops: the 2-way loops
\* in the order of G.edges(), then the 3-way loops in the order of the nested
\* iteration; nodes and successors come in ascending order, so both orders
\* are lexicographic
appended_before(x, y) ==
    \/ Len(x) < Len(y)
    \/ /\ Len(x) = Len(y)
       /\ \E k \in 1..Len(x) :
             /\ x[k] < y[k]
             /\ \A j \in 1..(k - 1) : x[j] = y[j]

\* lines 52-70 and 80-98: the loop over the rows idxs of the current table
round_loop(cur, idxs) ==
    LET n == Len(idxs)
        values == [t \in 0..(n - 1) |-> cur[idxs[t + 1]].have_value]
    IN  [loop_type |-> IF n = 2 THEN "2-way" ELSE "3-way",
         users |-> <<>> \o [t \in 1..n |-> cur[idxs[t]].user_id],
         values |-> values,
         cash_flows |-> [t \in 0..(n - 1) |-> values[t] - values[(t + 1) % n]]]

\* lines 49-100: valid_loops as appended
round_loops(cur, g) ==
    LET found == round_two_way(g) \cup round_three_way(g, DOMAIN cur)
    IN  <<>> \o [k \in 1..Cardinality(found) |->
                    round_loop(cur,
                               CHOOSE x \in found :
                                   Cardinality({y \in found : appended_before(y, x)})
                                       = k - 1)]

\* relative_fairness_score = std(cash_flows) / (total_value / n), compared
\* by its square sum(cf^2) * n^2 / ((n - 1) * total_value^2) with the amounts
\* taken in units of 1.00 (lines 57-59, 85-87)
fairness_less(l1, l2) ==
    LET n1 == Len(l1.users)
        n2 == Len(l2.users)
        sq(l, n) == Sum([t \in 0..(n - 1) |->
                            (l.cash_flows[t] \div 1000) * (l.cash_flows[t] \div 1000)], n)
        total(l, n) == Sum(l.values, n) \div 1000
    IN  sq(l1, n1) * n1 * n1 * (n2 - 1) * total(l2, n2) * total(l2, n2)
            < sq(l2, n2) * n2 * n2 * (n1 - 1) * total(l1, n1) * total(l1, n1)

\* line 103: list.sort is stable, so loops of equal score stay in the order
\* they were appended
sort_loops(loops) ==
    LET sorted_before(i, j) ==
            \/ fairness_less(loops[i], loops[j])
            \/ ~fairness_less(loops[j], loops[i]) /\ i < j
    IN  <<>> \o [k \in 1..Len(loops) |->
                    loops[CHOOSE i \in 1..Len(loops) :
                              Cardinality({j \in 1..Len(loops) : sorted_before(j, i)})
                                  = k - 1]]

decline_users_none(status, d) == status

\* lines 146-148
decline_users(status, d) ==
    [u \in DOMAIN status |->
        IF u \in DOMAIN d /\ d[u] = "decline" THEN "declined" ELSE status[u]]

\* lines 138-139
match_users(status, loop_users) ==
    [u \in DOMAIN status |-> IF u \in Range(loop_users) THEN "matched" ELSE status[u]]

\* lines 13-23: the script has loaded a table of at most MaxRoundUsers users
RoundInit ==
    /\ \E n \in 0..MaxRoundUsers :
          \E w \in WatchColumns(n), t \in UserRows(n) :
              /\ df = UserTable(w, t)
              /\ user_status = [u \in {user_id(1, i + 1) : i \in 0..(n - 1)} |->
                                   "available"]
    /\ executed_loops = <<>>
    /\ rejected_loops = <<>>
    /\ round_counter = 1
    /\ available_users = {}
    /\ current_users_df = <<>>
    /\ valid_loops = <<>>
    /\ filtered_loops = <<>>
    /\ row_idx = 0
    /\ decisions = <<>>
    /\ trade_counter = 0
    /\ quartiles = <<>>
    /\ weights = <<>>
    /\ G = {}
    /\ raw_loops = <<>>
    /\ enriched = <<>>
    /\ stage = "idle"
    /\ call_args = <<>>
    /\ first_run = <<>>
    /\ matches = <<>>
    /\ config = [initial_users |-> 0, growth_rate |-> 0, num_periods |-> 0]
    /\ DriverIdle("round_start")

\* lines 25-31: a round begins with the table of the available users
SelectAvailable ==
    /\ pc = "round_start"
    /\ available_users' = {u \in DOMAIN user_status : user_status[u] = "available"}
    /\ current_users_df' = reset_index(df, user_status)
    /\ pc' = "build_graph"
    /\ UNCHANGED <<config, period, carried_users_df, period_users_df,
                   period_summaries, executed_files, summary_file, users_files,
                   user_trade_log, user_history_tracker>>
    /\ UNCHANGED <<call_args, first_run, matches, valid_loops, round_counter>>
    /\ UNCHANGED <<simVars, matchVars>>

\* lines 33-47
RoundBuildGraph ==
    /\ pc = "build_graph"
    /\ G' = round_graph(current_users_df)
    /\ pc' = "find_loops"
    /\ UNCHANGED <<config, period, carried_users_df, period_users_df,
                   period_summaries, executed_files, summary_file, users_files,
                   user_trade_log, user_history_tracker>>
    /\ UNCHANGED <<df, raw_loops, enriched, stage>>
    /\ UNCHANGED <<simVars, unitVars>>

\* lines 49-100
RoundFindLoops ==
    /\ pc = "find_loops"
    /\ valid_loops' = round_loops(current_users_df, G)
    /\ pc' = "sort"
    /\ UNCHANGED <<config, period, carried_users_df, period_users_df,
                   period_summaries, executed_files, summary_file, users_files,
                   user_trade_log, user_history_tracker>>
    /\ UNCHANGED <<call_args, first_run, matches, available_users,
                   current_users_df, round_counter>>
    /\ UNCHANGED <<simVars, matchVars>>

\* lines 103-113: the loops are sorted, and there is at least one
StartRound ==
    /\ pc = "sort"
    /\ valid_loops # <<>>
    /\ valid_loops' = sort_loops(valid_loops)
    /\ row_idx' = 0
    /\ pc' = "round_loops"
    /\ UNCHANGED <<filtered_loops, user_status, decisions, executed_loops,
                   rejected_loops, trade_counter, quartiles, weights>>
    /\ UNCHANGED <<config, period, carried_users_df, period_users_df,
                   period_summaries, executed_files, summary_file, users_files,
                   user_trade_log, user_history_tracker>>
    /\ UNCHANGED <<call_args, first_run, matches, available_users,
                   current_users_df, round_counter>>
    /\ UNCHANGED matchVars

\* lines 103-107: no loop among the available users, the script leaves the loop
ExitRounds ==
    /\ pc = "sort"
    /\ valid_loops = <<>>
    /\ pc' = "exited"
    /\ UNCHANGED <<config, period, carried_users_df, period_users_df,
                   period_summaries, executed_files, summary_file, users_files,
                   user_trade_log, user_history_tracker>>
    /\ UNCHANGED <<simVars, matchVars, unitVars>>

\* lines 114-154: a loop whose users are all available is decided
RoundDecide ==
    /\ pc = "round_loops"
    /\ row_idx < Len(valid_loops)
    /\ LET loop == valid_loops[row_idx + 1]
           loop_users == loop.users
       IN  /\ \A k \in 1..Len(loop_users) : user_status[loop_users[k]] = "available"
           /\ \E d \in [Range(loop_users) -> {"accept", "decline"}] :
                 /\ decisions' = d
                 /\ IF \A u \in DOMAIN d : d[u] = "accept"
                    THEN /\ executed_loops' =
                                Append(executed_loops,
                                       [loop EXCEPT !.users = json_dumps(loop_users)]
                                           @@ [round_executed |-> round_counter])
                         /\ user_status' = match_users(user_status, loop_users)
                         /\ UNCHANGED rejected_loops
                    ELSE /\ rejected_loops' =
                                Append(rejected_loops,
                                       [loop EXCEPT !.users = json_dumps(loop_users)]
                                           @@ [round_rejected |-> round_counter])
                         /\ user_status' = decline_users(user_status, d)
                         /\ UNCHANGED executed_loops
    /\ row_idx' = row_idx + 1
    /\ UNCHANGED <<filtered_loops, trade_counter, quartiles, weights>>
    /\ UNCHANGED <<driverVars, matchVars, unitVars>>

\* lines 114-116: a loop with a user that is no longer available is passed
RoundSkip ==
    /\ pc = "round_loops"
    /\ row_idx < Len(valid_loops)
    /\ \E k \in 1..Len(valid_loops[row_idx + 1].users) :
          user_status[valid_loops[row_idx + 1].users[k]] # "available"
    /\ row_idx' = row_idx + 1
    /\ UNCHANGED <<filtered_loops, user_status, decisions, executed_loops,
                   rejected_loops, trade_counter, quartiles, weights>>
    /\ UNCHANGED <<driverVars, matchVars, unitVars>>

\* lines 156-160
EndRound ==
    /\ pc = "round_loops"
    /\ row_idx = Len(valid_loops)
    /\ round_counter < MaxRounds
    /\ round_counter' = round_counter + 1
    /\ pc' = "round_start"
    /\ UNCHANGED <<config, period, carried_users_df, period_users_df,
                   period_summaries, executed_files, summary_file, users_files,
                   user_trade_log, user_history_tracker>>
    /\ UNCHANGED <<call_args, first_run, matches, available_users,
                   current_users_df, valid_loops>>
    /\ UNCHANGED <<simVars, matchVars>>

RoundNext ==
    \/ SelectAvailable
    \/ RoundBuildGraph
    \/ RoundFindLoops
    \/ StartRound
    \/ ExitRounds
    \/ RoundDecide
    \/ RoundSkip
    \/ EndRound

\* the interpreter keeps running the script
RoundSpec == RoundInit /\ [][RoundNext]_vars /\ WF_vars(RoundNext)

MatchNext == BuildTradeGraph \/ FindValidLoops \/ EnrichLoops

MatchSpec == MatchInit /\ [][MatchNext]_vars

(***************************************************************************)
(* The acceptance weights: get_trade_weights, and the weights the scan     *)
(* draws the decisions of a considered row with (simulate_trade_loops,     *)
(* lines 100-125).  They set the odds of the draws DecideRow takes freely; *)
(* here they are computed for every fairness column of at most MaxScored   *)
(* rows.  Scores are in 1/10000, weights in 1/100.                         *)
(***************************************************************************)
isna(x) == x = NaN

\* fairness_values = filtered_loops['relative_fairness_score'].dropna()
dropna(col) == SelectSeq(col, LAMBDA x : ~isna(x))

RECURSIVE remove_first(_, _)
remove_first(seq, x) ==
    IF seq = <<>> THEN <<>>
    ELSE IF Head(seq) = x THEN Tail(seq)
    ELSE <<Head(seq)>> \o remove_first(Tail(seq), x)

RECURSIVE sorted(_)
sorted(seq) ==
    IF seq = <<>> THEN <<>>
    ELSE LET m == CHOOSE x \in Range(seq) : \A y \in Range(seq) : x <= y
         IN  <<m>> \o sorted(remove_first(seq, m))

\* 4 * Series.quantile(k / 4) with linear interpolation, v sorted
quantile4(v, k) ==
    LET pos4 == (Len(v) - 1) * k
        lo == pos4 \div 4
        r == pos4 % 4
    IN  IF r = 0 THEN 4 * v[lo + 1]
        ELSE (4 * v[lo + 1]) + (r * (v[lo + 2] - v[lo + 1]))

\* lines 101-105
fairness_quartiles(col) ==
    LET v == sorted(dropna(col))
    IN  IF v = <<>> THEN <<0, 0, 0>>
        ELSE <<quantile4(v, 1), quantile4(v, 2), quantile4(v, 3)>>

\* lines 116-125: [decline, accept]
scan_weights(fairness, q) ==
    IF isna(fairness) THEN <<50, 50>>
    ELSE IF 4 * fairness <= q[1] THEN <<80, 20>>
    ELSE IF 4 * fairness <= q[2] THEN <<60, 40>>
    ELSE IF 4 * fairness <= q[3] THEN <<40, 60>>
    ELSE <<20, 80>>

get_trade_weights_inclusive(fairness_score, value_efficiency) ==
    LET efficiency_modifier ==
            IF value_efficiency <= 8000 THEN 0 - 40
            ELSE IF value_efficiency <= 8338 THEN 0
            ELSE IF value_efficiency <= 8600 THEN 15
            ELSE IF value_efficiency <= 8980 THEN 25
            ELSE 35
        fairness_modifier ==
            IF fairness_score < 7469 THEN 0
            ELSE IF fairness_score < 7888 THEN 3
            ELSE IF fairness_score < 8509 THEN 8
            ELSE IF fairness_score < 9000 THEN 12
            ELSE 15
        accept_weight == 50 + efficiency_modifier + fairness_modifier
    IN  <<100 - accept_weight, accept_weight>>

\* lines 42-71; a comparison with NaN is false, so a missing fairness score
\* falls to the last branch
get_trade_weights(fairness_score, value_efficiency) ==
    LET base_weight == 50
        efficiency_modifier ==
            IF value_efficiency < 8000 THEN 0 - 40
            ELSE IF value_efficiency < 8338 THEN 0
            ELSE IF value_efficiency < 8600 THEN 15
            ELSE IF value_efficiency < 8980 THEN 25
            ELSE 35
        fairness_modifier ==
            IF isna(fairness_score) THEN 15
            ELSE IF fairness_score < 7469 THEN 0
            ELSE IF fairness_score < 7888 THEN 3
            ELSE IF fairness_score < 8509 THEN 8
            ELSE IF fairness_score < 9000 THEN 12
            ELSE 15
        accept_weight == base_weight + efficiency_modifier + fairness_modifier
    IN  <<100 - accept_weight, accept_weight>>

\* test inputs of get_trade_weights: the band edges of both tables, the
\* values just below them, and the ends of the score range
EfficiencyInputs == {0, 7999, 8000, 8337, 8338, 8599, 8600, 8979, 8980, 10000}
FairnessInputs == {0, 7468, 7469, 7887, 7888, 8508, 8509, 8999, 9000, 10000}

TableInit ==
    /\ \E f \in FairnessInputs, e \in EfficiencyInputs :
          call_args = [fairness_score |-> f, value_efficiency |-> e]
    /\ first_run = <<>>
    /\ matches = <<>>
    /\ available_users = {}
    /\ current_users_df = <<>>
    /\ valid_loops = <<>>
    /\ round_counter = 0
    /\ config = [initial_users |-> 0, growth_rate |-> 0, num_periods |-> 0]
    /\ DriverIdle("call")
    /\ SimIdle
    /\ MatchIdle

\* a call of get_trade_weights (lines 42-71)
GetTradeWeights ==
    /\ pc = "call"
    /\ weights' = get_trade_weights(call_args.fairness_score, call_args.value_efficiency)
    /\ pc' = "returned"
    /\ UNCHANGED <<filtered_loops, row_idx, user_status, decisions, executed_loops,
                   rejected_loops, trade_counter, quartiles>>
    /\ UNCHANGED <<config, period, carried_users_df, period_users_df,
                   period_summaries, executed_files, summary_file, users_files,
                   user_trade_log, user_history_tracker>>
    /\ UNCHANGED <<matchVars, unitVars>>

TableSpec == TableInit /\ [][GetTradeWeights]_vars

fairness_column(rows) == [k \in 1..Len(rows) |-> rows[k].relative_fairness_score]

WeightInit ==
    /\ \E n \in 1..MaxScored :
          \E col \in [1..n -> FairnessScores] :
              filtered_loops =
                  [k \in 1..n |-> [loop_id |-> k, relative_fairness_score |-> col[k]]]
    /\ row_idx = 0
    /\ user_status = <<>>
    /\ decisions = <<>>
    /\ executed_loops = <<>>
    /\ rejected_loops = <<>>
    /\ trade_counter = 0
    /\ quartiles = <<>>
    /\ weights = <<>>
    /\ config = [initial_users |-> 0, growth_rate |-> 0, num_periods |-> 0]
    /\ DriverIdle("quartiles")
    /\ MatchIdle
    /\ UnitIdle

\* lines 100-105
ComputeQuartiles ==
    /\ pc = "quartiles"
    /\ quartiles' = fairness_quartiles(fairness_column(filtered_loops))
    /\ pc' = "weights"
    /\ UNCHANGED <<filtered_loops, row_idx, user_status, decisions, executed_loops,
                   rejected_loops, trade_counter, weights>>
    /\ UNCHANGED <<config, period, carried_users_df, period_users_df,
                   period_summaries, executed_files, summary_file, users_files,
                   user_trade_log, user_history_tracker>>
    /\ UNCHANGED <<matchVars, unitVars>>

\* lines 114-125 for the next row
ChooseWeights ==
    /\ pc = "weights"
    /\ row_idx < Len(filtered_loops)
    /\ weights' =
           Append(weights,
                  scan_weights(filtered_loops[row_idx + 1].relative_fairness_score,
                               quartiles))
    /\ row_idx' = row_idx + 1
    /\ UNCHANGED <<filtered_loops, user_status, decisions, executed_loops,
                   rejected_loops, trade_counter, quartiles>>
    /\ UNCHANGED <<driverVars, matchVars, unitVars>>

WeightNext == ComputeQuartiles \/ ChooseWeights

WeightSpec == WeightInit /\ [][WeightNext]_vars

(***************************************************************************)
(* Properties of the matching pipeline (checked under MatchSpec).          *)
(***************************************************************************)
nodes_of(d) == DOMAIN d

\* the four clauses of the edge definition
admissible(d, i, j) ==
    /\ i # j
    /\ d[i].have_watch # d[j].have_watch
    /\ d[i].have_value >= d[j].min_acceptable_item_value
    /\ d[i].have_value - d[j].have_value <= d[j].max_cash_top_up

Occurrences(loops, idxs) ==
    Cardinality({k \in 1..Len(loops) : loops[k].indexes = idxs})

Rotations3(a, b, c) == {List(<<a, b, c>>), List(<<b, c, a>>), List(<<c, a, b>>)}
Rotations2(u, v) == {List(<<u, v>>), List(<<v, u>>)}

EmittedAmong(loops, S) == Cardinality({k \in 1..Len(loops) : loops[k].indexes \in S})

Directed3(g, a, b, c) ==
    /\ Cardinality({a, b, c}) = 3
    /\ has_edge(g, a, b) /\ has_edge(g, b, c) /\ has_edge(g, c, a)

Directed2(g, u, v) == u # v /\ has_edge(g, u, v) /\ has_edge(g, v, u)

LoopsFound == stage \in {"loops", "enriched"}

\* C3: once the graph is built, (i, j) is an edge iff i # j, the watches
\* differ, have_value(i) >= min_acceptable_item_value(j) and
\* have_value(i) - have_value(j) <= max_cash_top_up(j); no self-loop (v, v).
C3_EdgeIffAdmissible ==
    stage # "loaded" =>
        /\ G \subseteq (nodes_of(df) \X nodes_of(df))
        /\ \A i \in nodes_of(df), j \in nodes_of(df) :
              has_edge(G, i, j) <=> admissible(df, i, j)
        /\ \A v \in nodes_of(df) : ~has_edge(G, v, v)

C3_Witness ==
    /\ stage = "graph"
    /\ \E i \in nodes_of(df), j \in nodes_of(df) :
          /\ has_edge(G, i, j)
          /\ df[i].have_value = df[j].min_acceptable_item_value
    /\ \E i \in nodes_of(df), j \in nodes_of(df) :
          /\ i # j /\ ~has_edge(G, i, j)
          /\ df[i].have_watch # df[j].have_watch
          /\ df[i].have_value >= df[j].min_acceptable_item_value

\* C4: for every emitted loop and every seat t, the value held at seat t is
\* at least the floor of seat (t+1) mod k, and exceeds the value held at seat
\* (t+1) mod k by at most that seat's max top-up.
C4_EmittedLoopsLegal ==
    LoopsFound =>
        \A k \in 1..Len(raw_loops) :
            LET idxs == raw_loops[k].indexes
                n == len(idxs)
            IN  \A t \in 0..(n - 1) :
                    LET giver == df[idxs[t]]
                        taker == df[idxs[(t + 1) % n]]
                    IN  /\ giver.have_value >= taker.min_acceptable_item_value
                        /\ giver.have_value - taker.have_value <= taker.max_cash_top_up

C4_Witness ==
    /\ stage = "loops"
    /\ \E k \in 1..Len(raw_loops) : raw_loops[k].loop_type = "3-way"
    /\ \E k \in 1..Len(raw_loops) : raw_loops[k].loop_type = "2-way"

\* C5: in every enriched row of length k in {2, 3}, cash_flow[t] is the value
\* held at seat t minus the value held at seat (t+1) mod k, and the cash
\* flows of the row sum to exactly zero.
C5_CashFlowsConserved ==
    stage = "enriched" =>
        \A r \in 1..Len(enriched) :
            LET row == enriched[r]
                k == len(row.indexes)
            IN  /\ k \in {2, 3}
                /\ DOMAIN row.cash_flow = 0..(k - 1)
                /\ \A t \in 0..(k - 1) :
                      row.cash_flow[t] =
                          df[row.indexes[t]].have_value
                              - df[row.indexes[(t + 1) % k]].have_value
                /\ Sum(row.cash_flow, k) = 0

C5_Witness ==
    /\ stage = "enriched"
    /\ \E r \in 1..Len(enriched) :
          /\ enriched[r].loop_type = "3-way"
          /\ enriched[r].cash_flow[0] # 0
    /\ \E r \in 1..Len(enriched) :
          /\ enriched[r].loop_type = "2-way"
          /\ enriched[r].cash_flow[0] # 0

\* C7 as stated: every directed 2-cycle and every directed 3-cycle of the
\* graph is emitted exactly once, rotations counted as one cycle.
C7_EveryCycleOnce ==
    LoopsFound =>
        /\ \A u \in nodes_of(df), v \in nodes_of(df) :
              Directed2(G, u, v) => EmittedAmong(raw_loops, Rotations2(u, v)) = 1
        /\ \A a \in nodes_of(df), b \in nodes_of(df), c \in nodes_of(df) :
              Directed3(G, a, b, c) => EmittedAmong(raw_loops, Rotations3(a, b, c)) = 1

\* C7 amended: every directed 2-cycle is emitted exactly once, and a directed
\* 3-cycle is emitted exactly once when it runs a -> b -> c -> a for its
\* members a < b < c and not at all when it only runs a -> c -> b -> a.
C7_AscendingCyclesOnce ==
    LoopsFound =>
        /\ \A u \in nodes_of(df), v \in nodes_of(df) :
              Directed2(G, u, v) => EmittedAmong(raw_loops, Rotations2(u, v)) = 1
        /\ \A a \in nodes_of(df), b \in nodes_of(df), c \in nodes_of(df) :
              (a < b /\ b < c) =>
                  /\ Directed3(G, a, b, c) =>
                        EmittedAmong(raw_loops, Rotations3(a, b, c)) = 1
                  /\ EmittedAmong(raw_loops, Rotations3(a, c, b)) = 0

C7_Witness ==
    /\ stage = "loops"
    /\ \E k \in 1..Len(raw_loops) : raw_loops[k].loop_type = "2-way"
    /\ \E k \in 1..Len(raw_loops) : raw_loops[k].loop_type = "3-way"
    /\ \E a \in nodes_of(df), b \in nodes_of(df), c \in nodes_of(df) :
          a < b /\ b < c /\ Directed3(G, a, c, b)

\* C8: for a < b < c the 3-way loop [a, b, c] is emitted iff the edges (a, b),
\* (b, c), (c, a) exist, at most once; no 3-way loop is emitted in the
\* orientation [a, c, b] or as a rotation, so an unordered triple yields at
\* most one 3-way loop.
C8_ThreeWayAscendingOnly ==
    LoopsFound =>
        /\ \A a \in nodes_of(df), b \in nodes_of(df), c \in nodes_of(df) :
              (a < b /\ b < c) =>
                  /\ Occurrences(raw_loops, List(<<a, b, c>>)) =
                        (IF Directed3(G, a, b, c) THEN 1 ELSE 0)
                  /\ EmittedAmong(raw_loops,
                        (Rotations3(a, b, c) \cup Rotations3(a, c, b))
                            \ {List(<<a, b, c>>)}) = 0
        /\ \A k \in 1..Len(raw_loops) :
              raw_loops[k].loop_type = "3-way" =>
                  /\ len(raw_loops[k].indexes) = 3
                  /\ raw_loops[k].indexes[0] < raw_loops[k].indexes[1]
                  /\ raw_loops[k].indexes[1] < raw_loops[k].indexes[2]

C8_Witness ==
    /\ stage = "loops"
    /\ \E a \in nodes_of(df), b \in nodes_of(df), c \in nodes_of(df) :
          /\ a < b /\ b < c
          /\ Directed3(G, a, b, c) /\ Directed3(G, a, c, b)
          /\ Occurrences(raw_loops, List(<<a, b, c>>)) = 1

\* C9: the 2-way loop [u, v] is emitted iff u < v and both (u, v) and (v, u)
\* are edges, exactly once per unordered pair.
C9_TwoWayOncePerPair ==
    LoopsFound =>
        /\ \A u \in nodes_of(df), v \in nodes_of(df) :
              Occurrences(raw_loops, List(<<u, v>>)) =
                  (IF u < v /\ has_edge(G, u, v) /\ has_edge(G, v, u) THEN 1 ELSE 0)
        /\ \A k \in 1..Len(raw_loops) :
              raw_loops[k].loop_type = "2-way" => len(raw_loops[k].indexes) = 2

C9_Witness ==
    /\ stage = "loops"
    /\ \E k \in 1..Len(raw_loops) : raw_loops[k].loop_type = "2-way"
    /\ \E u \in nodes_of(df), v \in nodes_of(df) :
          has_edge(G, u, v) /\ ~has_edge(G, v, u)

\* C14: in every enriched row the member at seat t hands its watch to the
\* member at seat (t+1) mod k: the watch recorded as received at seat
\* (t+1) mod k is the watch held at seat t.
C14_ReceivedFromPreviousSeat ==
    stage = "enriched" =>
        \A r \in 1..Len(enriched) :
            LET row == enriched[r]
                k == len(row.indexes)
            IN  \A t \in 0..(k - 1) : row.received_watch[(t + 1) % k] = row.watch[t]

\* C25: in every enriched 3-way row the watch recorded as received by member
\* i is worth at least that member's min_acceptable_item_value, and exceeds
\* the value of the member's own watch by at most its max_cash_top_up.
C25_RecordedReceiptIsAdmissible ==
    stage = "enriched" =>
        \A r \in 1..Len(enriched) :
            LET row == enriched[r]
            IN  row.loop_type = "3-way" =>
                    \A i \in 0..2 :
                        LET member == df[row.indexes[i]]
                            giver == CHOOSE t \in 0..2 :
                                         row.watch[t] = row.received_watch[i]
                        IN  /\ row.value[giver] >= member.min_acceptable_item_value
                            /\ row.value[giver] - row.value[i]
                                   <= member.max_cash_top_up

(***************************************************************************)
(* Properties of the scan and of the driver (checked under Spec).          *)
(***************************************************************************)
members(record) == Range(eval_users(record.users))

RECURSIVE Flatten(_)
Flatten(ss) == IF ss = <<>> THEN <<>> ELSE Head(ss) \o Flatten(Tail(ss))

\* the executed cycles of the run in emission order: the files of the periods
\* already written, then the log of the period being scanned
EmissionOrder ==
    Flatten(executed_files) \o (IF pc = "scan" THEN executed_loops ELSE <<>>)

\* C1: within one period's scan no participant is a member of two executed
\* cycles, whatever the candidate list, its order and the draws.
C1_ExecutedCyclesDisjoint ==
    /\ \A i \in 1..Len(executed_loops), j \in 1..Len(executed_loops) :
          i # j => members(executed_loops[i]) \cap members(executed_loops[j]) = {}
    /\ \A k \in 1..Len(executed_files) :
          \A i \in 1..Len(executed_files[k]), j \in 1..Len(executed_files[k]) :
              i # j =>
                  members(executed_files[k][i]) \cap members(executed_files[k][j]) = {}

\* the first row executed and the second, which shares a member with it, was
\* passed over; a third row, disjoint from the first, executed too
C1_Witness ==
    /\ pc = "scan"
    /\ row_idx = 3
    /\ Len(executed_loops) = 2
    /\ rejected_loops = <<>>
    /\ Range(filtered_loops[1].user) \cap Range(filtered_loops[2].user) # {}
    /\ filtered_loops[1].user # filtered_loops[2].user
    /\ members(executed_loops[1]) = Range(filtered_loops[1].user)

\* the run has come to its end: the summary is saved, or an exception left
\* the driver
Stopped == pc \in {"done", "crashed"}

C6_TradeIdsStrictlyIncreasing ==
    /\ \A i \in 1..Len(EmissionOrder), j \in 1..Len(EmissionOrder) :
          i < j => trade_number(EmissionOrder[i].trade_id)
                       < trade_number(EmissionOrder[j].trade_id)
    /\ \A i \in 1..Len(EmissionOrder) :
          LET r == EmissionOrder[i]
          IN  /\ trade_number(r.trade_id) > (r.period_executed - 1) * PeriodStride
              /\ trade_number(r.trade_id) <= r.period_executed * PeriodStride

\* two cycles executed in the scan of the second period of a run
C6_Witness ==
    /\ pc = "scan"
    /\ period = 1
    /\ Len(executed_loops) = 2
    /\ trade_number(executed_loops[1].trade_id) > PeriodStride

\* C10: a considered cycle is appended to the executed log and its members
\* become matched iff every member drew accept; with a decline it is not
\* executed and no member becomes matched.
C10_ExecutedIffUnanimous ==
    [][(/\ pc = "scan"
        /\ row_idx' = row_idx + 1
        /\ \A u \in Range(filtered_loops[row_idx + 1].user) :
              user_status[u] = "available")
       => LET row == filtered_loops[row_idx + 1]
              users == Range(row.user)
          IN  IF \A u \in users : decisions'[u] = "accept"
              THEN /\ Len(executed_loops') = Len(executed_loops) + 1
                   /\ SubSeq(executed_loops', 1, Len(executed_loops)) = executed_loops
                   /\ members(executed_loops'[Len(executed_loops')]) = users
                   /\ \A u \in users : user_status'[u] = "matched"
              ELSE /\ executed_loops' = executed_loops
                   /\ \A u \in users : user_status'[u] # "matched"]_vars

\* one cycle executed, another was rejected with a member that accepted
C10_Witness ==
    /\ pc = "scan"
    /\ Len(executed_loops) = 1
    /\ Len(rejected_loops) = 1
    /\ \E u \in members(rejected_loops[1]) : user_status[u] = "declined"
    /\ \E u \in members(rejected_loops[1]) : user_status[u] = "available"

\* the members of the cycles in the executed log of the scan
ExecutedMembers == UNION {members(executed_loops[k]) : k \in 1..Len(executed_loops)}

\* the scan has read every row: the statuses are the ones it returns
ScanOver == pc = "scan" /\ row_idx = Len(filtered_loops)

\* C11: at every point of a scan, and in the statuses it returns, a
\* participant is matched iff it is a member of a cycle of the executed log
\* of that scan.
C11_MatchedIffInExecutedLog ==
    /\ ExecutedMembers \subseteq DOMAIN user_status
    /\ \A u \in DOMAIN user_status :
          user_status[u] = "matched" <=> u \in ExecutedMembers

\* the scan is over with a 3-cycle executed and a fourth user left unmatched
C11_Witness ==
    /\ ScanOver
    /\ \E k \in 1..Len(executed_loops) : Cardinality(members(executed_loops[k])) = 3
    /\ \E u \in DOMAIN user_status : user_status[u] # "matched"

\* C12: when a scan is over, every candidate cycle handed to it is in the
\* executed log or in the rejected log, so the two logs together hold as many
\* cycles as were handed over.
C12_EveryCandidateLogged ==
    ScanOver => Len(executed_loops) + Len(rejected_loops) = Len(filtered_loops)

\* C13: every cycle of the rejected log carries trade_id N/A.
C13_RejectedTradeIdNA ==
    \A k \in 1..Len(rejected_loops) : rejected_loops[k].trade_id = "N/A"

\* C15: when a period after the first starts, every participant of the
\* previous pool that was not matched, whether the previous scan left it
\* available or declined, is in the new pool, and the scan of the new period
\* starts with it available.
C15_CarriedOverAvailableAgain ==
    [][(pc = "period_start" /\ period >= 1 /\ pc' \in {"scan", "crashed"})
       => \A u \in Range(period_users_df) :
              user_status[u] # "matched" =>
                  /\ u \in Range(period_users_df')
                  /\ pc' = "scan" => /\ u \in DOMAIN user_status'
                                     /\ user_status'[u] = "available"]_vars

\* in the second period a participant that declined in the first period is
\* available and is a member of a candidate cycle
C15_Witness ==
    /\ pc = "scan"
    /\ period = 1
    /\ row_idx = 0
    /\ \E u \in DOMAIN user_status :
          /\ user_status[u] = "available"
          /\ \E k \in 1..Len(user_trade_log) :
                /\ user_trade_log[k].user_id = u
                /\ user_trade_log[k].period_number = 1
                /\ user_trade_log[k].decision = "decline"
          /\ \E k \in 1..Len(filtered_loops) : u \in Range(filtered_loops[k].user)

\* a step of the scan that evaluates the row it reads (the members draw)
Evaluates == pc = "scan" /\ trade_counter' # trade_counter

\* C16: when an evaluated cycle is not unanimous, each member that drew
\* decline becomes declined; a declined participant stays declined until the
\* scan is over, and no cycle holding a declined participant is evaluated or
\* executed.
C16_DeclinedIsSticky ==
    [][/\ (Evaluates /\ executed_loops' = executed_loops)
           => \A u \in DOMAIN decisions' :
                  decisions'[u] = "decline" => user_status'[u] = "declined"
       /\ (pc = "scan" /\ pc' = "scan")
           => \A u \in DOMAIN user_status :
                  user_status[u] = "declined" => user_status'[u] = "declined"
       /\ (pc = "scan" /\ row_idx' = row_idx + 1
              /\ \E u \in Range(filtered_loops[row_idx + 1].user) :
                    user_status[u] = "declined")
           => /\ trade_counter' = trade_counter
              /\ executed_loops' = executed_loops
              /\ rejected_loops' = rejected_loops
              /\ user_trade_log' = user_trade_log]_vars

\* a cycle was rejected, and a later cycle holding one of its declined
\* members was passed over
C16_Witness ==
    /\ pc = "scan"
    /\ row_idx = 2
    /\ Len(rejected_loops) = 1
    /\ executed_loops = <<>>
    /\ trade_counter = (period * PeriodStride) + 1
    /\ \E u \in Range(filtered_loops[2].user) : user_status[u] = "declined"
    /\ filtered_loops[2].user # filtered_loops[1].user

\* C17: when an evaluated cycle is rejected, the members that drew accept
\* keep the status available.
C17_AcceptersStayAvailable ==
    [][(Evaluates /\ executed_loops' = executed_loops)
       => \A u \in DOMAIN decisions' :
              decisions'[u] = "accept" => user_status'[u] = "available"]_vars

\* a member that accepted in a rejected cycle was executed in a later cycle
\* of the same scan
C17_Witness ==
    /\ pc = "scan"
    /\ Len(rejected_loops) = 1
    /\ Len(executed_loops) = 1
    /\ trade_number(rejected_loops[1].trade_id)
           < trade_number(executed_loops[1].trade_id)
    /\ members(rejected_loops[1]) \cap members(executed_loops[1]) # {}

\* round(n / d) of Python for naturals n, d > 0: to the nearest integer, a
\* tie to the even one
RoundHalfEven(n, d) ==
    LET q == n \div d
        r == n % d
    IN  IF 2 * r < d THEN q
        ELSE IF 2 * r > d THEN q + 1
        ELSE IF q % 2 = 0 THEN q ELSE q + 1

\* the users admitted by a step that starts a period: the new pool without
\* the carried users
Admitted == Len(period_users_df') - Len(carried_users_df)

StartsPeriod == pc = "period_start" /\ pc' \in {"scan", "crashed"}

\* C18 as stated: the number of participants admitted in period p (counted
\* from 1) is round(initial_count * (1 + growth_rate)^(p - 1)).
C18_AdmittedIsRounded ==
    [][StartsPeriod
       => Admitted = RoundHalfEven(config.initial_users
                                       * Pow(100 + config.growth_rate, period),
                                   Pow(100, period))]_vars

\* C18 amended: the number admitted in period p is that product truncated
\* to an integer: the largest n with n <= initial_count * (1 + growth_rate)^(p - 1).
C18_AdmittedIsTruncated ==
    [][StartsPeriod
       => /\ Admitted * Pow(100, period)
                <= config.initial_users * Pow(100 + config.growth_rate, period)
          /\ (Admitted + 1) * Pow(100, period)
                > config.initial_users * Pow(100 + config.growth_rate, period)]_vars

\* the second period of a run with growth has started with fewer users
\* admitted than the exact product rounds to
C18_Witness ==
    /\ pc = "scan"
    /\ period = 1
    /\ config.growth_rate > 0
    /\ (Len(period_users_df) - Len(carried_users_df)) * 100
           < config.initial_users * (100 + config.growth_rate)

\* the participants admitted in period j (counted from 1): the users of that
\* period's pool whose id carries the period
AdmittedIn(j) == {u \in Range(users_files[j]) : u[1] = j}

NoneExecutedUpTo(k) ==
    \A j \in 1..k : j <= Len(executed_files) => executed_files[j] = <<>>

\* C19: when no cycle executed in the periods before period k, the pool of
\* period k holds every participant admitted in periods 1..k; when none
\* executed in period k either, End Users of the summary row of period k is
\* the sum of the numbers admitted in periods 1..k.
C19_AllCarriedWhenNoneExecute ==
    /\ \A k \in 1..Len(users_files) :
          NoneExecutedUpTo(k - 1) =>
              Range(users_files[k]) = UNION {AdmittedIn(j) : j \in 1..k}
    /\ \A k \in 1..Len(period_summaries) :
          NoneExecutedUpTo(k) =>
              /\ period_summaries[k].Period = k
              /\ period_summaries[k].EndUsers =
                     Sum([j \in 0..(k - 1) |-> Cardinality(AdmittedIn(j + 1))], k)

\* two periods of two admitted users each without an executed cycle: End
\* Users 2, then 4
C19_Witness ==
    /\ Len(period_summaries) = 2
    /\ executed_files = << <<>>, <<>> >>
    /\ period_summaries[1].EndUsers = 2
    /\ period_summaries[2].EndUsers = 4
    /\ Len(users_files[2]) = 4

BaseAccept(e) ==
    CASE e < 8000 -> 10
      [] e >= 8000 /\ e < 8338 -> 50
      [] e >= 8338 /\ e < 8600 -> 65
      [] e >= 8600 /\ e < 8980 -> 75
      [] e >= 8980 -> 85

FairnessBoost(f) ==
    CASE f < 7469 -> 0
      [] f >= 7469 /\ f < 7888 -> 3
      [] f >= 7888 /\ f < 8509 -> 8
      [] f >= 8509 /\ f < 9000 -> 12
      [] f >= 9000 -> 15

\* C21: get_trade_weights returns [1 - p, p] with p the base value of the
\* efficiency band of value_efficiency plus the boost of the fairness band of
\* fairness_score, and p lies in [0, 1].
C21_WeightsFollowTable ==
    pc = "returned" =>
        LET p == BaseAccept(call_args.value_efficiency)
                     + FairnessBoost(call_args.fairness_score)
        IN  /\ weights = <<100 - p, p>>
            /\ weights[2] >= 0 /\ weights[2] <= 100

\* the call at the lower edge of the top efficiency band and of the top
\* fairness band returned p = 1
C21_Witness ==
    /\ pc = "returned"
    /\ call_args.value_efficiency = 8980
    /\ call_args.fairness_score = 9000
    /\ weights = <<0, 100>>

(***************************************************************************)
(* Properties of repeated runs (checked under RerunSpec).                  *)
(***************************************************************************)
\* C22: a second run with the configuration (and so the seed) of the first,
\* given the same candidate cycles, makes the same accept/decline decisions
\* and ends with the same executed, rejected and period-summary tables.
C22_SameRunSameOutputs ==
    (Stopped /\ first_run # <<>> /\ filtered_loops = first_run[1].candidates)
        => run_outputs = first_run[1]

(***************************************************************************)
(* Scenario S3 (checked under MatchSpec).                                  *)
(***************************************************************************)
\* the row of participant A (1), B (2) or C (3) in the table of scenario S3
S3Row(who) == CHOOSE i \in DOMAIN df : df[i].user_id = user_id(1, who)

S3TwoCyclesWith(who) ==
    {u \in DOMAIN df : Directed2(G, S3Row(who), u)}

S3Emitted(type) == {k \in 1..Len(raw_loops) : raw_loops[k].loop_type = type}

\* C23 as stated: in scenario S3, C takes part in no 2-cycle, the 3-cycle
\* A->B->C->A is in the graph, and at least one 3-way loop is emitted.
C23_S3ThreeCycleEmitted ==
    (df \in S3Tables /\ LoopsFound) =>
        /\ S3TwoCyclesWith(3) = {}
        /\ Directed3(G, S3Row(1), S3Row(2), S3Row(3))
        /\ S3Emitted("3-way") # {}

\* C23: in scenario S3, C takes part in no 2-cycle; no edge enters C (no watch
\* is worth C's floor of 125), so the 3-cycle A->B->C->A is not in the graph
\* and no 3-way loop is emitted; the enumerator emits exactly the 2-cycle of
\* A and B.
C23_S3OnlyTwoCycleOfAB ==
    (df \in S3Tables /\ LoopsFound) =>
        /\ S3TwoCyclesWith(3) = {}
        /\ \A u \in DOMAIN df : ~has_edge(G, u, S3Row(3))
        /\ ~Directed3(G, S3Row(1), S3Row(2), S3Row(3))
        /\ S3Emitted("3-way") = {}
        /\ Len(raw_loops) = 1
        /\ raw_loops[1].loop_type = "2-way"
        /\ raw_loops[1].indexes \in Rotations2(S3Row(1), S3Row(2))

C23_Witness ==
    /\ df \in S3Tables /\ stage = "loops"
    /\ has_edge(G, S3Row(1), S3Row(2)) /\ has_edge(G, S3Row(2), S3Row(1))
    /\ Len(raw_loops) = 1

(***************************************************************************)
(* The run as a whole (checked under Spec).                                *)
(***************************************************************************)
\* C24: a run that has come to its end has processed the periods
\* 1..num_periods in increasing order, whatever cycles executed, and its
\* period summary holds exactly one row per period.
C24_OneSummaryRowPerPeriod ==
    Stopped =>
        /\ pc = "done"
        /\ Len(users_files) = config.num_periods
        /\ Len(executed_files) = config.num_periods
        /\ summary_file # <<>>
        /\ Len(summary_file[1]) = config.num_periods
        /\ \A k \in 1..Len(summary_file[1]) : summary_file[1][k].Period = k

(***************************************************************************)
(* The scan when every member accepts (checked under Spec).                *)
(***************************************************************************)
\* the candidate cycles of the scan, the row at which a cycle first comes up,
\* and whether a cycle is in the executed log
Candidates == {filtered_loops[k].user : k \in 1..Len(filtered_loops)}

FirstRow(cycle) ==
    CHOOSE k \in 1..Len(filtered_loops) :
        /\ filtered_loops[k].user = cycle
        /\ \A j \in 1..(k - 1) : filtered_loops[j].user # cycle

Executed(cycle) ==
    \E i \in 1..Len(executed_loops) : eval_users(executed_loops[i].users) = cycle

Sharing(c1, c2) == Range(c1) \cap Range(c2) # {}

\* the scan is over and every cycle that was considered was accepted by all
AllAccepted == ScanOver /\ rejected_loops = <<>>

NoCandidateLeft ==
    \A c \in Candidates : \E u \in Range(c) : user_status[u] # "available"

\* C26 as stated: when every member accepts, of any two or more candidate
\* cycles with a common participant exactly the first in scan order executes,
\* and when the scan is over no candidate has all its members available.
C26_FirstOfSharingExecutes ==
    AllAccepted =>
        /\ \A S \in SUBSET Candidates :
              (Cardinality(S) >= 2 /\ \E u \in DOMAIN user_status :
                                          \A c \in S : u \in Range(c))
                  => \A c \in S :
                        Executed(c) <=> \A c2 \in S \ {c} : FirstRow(c) < FirstRow(c2)
        /\ NoCandidateLeft

\* C26: when every member accepts, a candidate cycle executes exactly when no
\* cycle earlier in scan order that shares a participant with it has executed
\* (so at most one cycle of any set with a common participant executes), and
\* when the scan is over no candidate has all its members available: the
\* executed cycles are a maximal set of pairwise-disjoint candidates.
C26_GreedyMaximalDisjoint ==
    AllAccepted =>
        /\ \A c \in Candidates :
              Executed(c) <=>
                  ~\E c2 \in Candidates :
                      /\ FirstRow(c2) < FirstRow(c)
                      /\ Sharing(c, c2)
                      /\ Executed(c2)
        /\ \A c1 \in Candidates, c2 \in Candidates :
              (Executed(c1) /\ Executed(c2) /\ c1 # c2) => ~Sharing(c1, c2)
        /\ NoCandidateLeft
        /\ \A c \in Candidates :
              ~Executed(c) => \E c2 \in Candidates : Executed(c2) /\ Sharing(c, c2)

\* the first row executed, the second shares a member with it and was passed
\* over, and the third, which shares a member with the second, executed
C26_Witness ==
    /\ AllAccepted
    /\ Len(filtered_loops) = 3
    /\ Executed(filtered_loops[1].user)
    /\ ~Executed(filtered_loops[2].user)
    /\ Executed(filtered_loops[3].user)
    /\ Sharing(filtered_loops[2].user, filtered_loops[3].user)

\* C27: a step of the scan that passes a row with a member that is not
\* available changes no status, appends nothing to the executed log, the
\* rejected log or the user trade log, leaves the history tracker (and so its
\* offered counts) as it was, and does not advance trade_counter.
C27_SkipHasNoEffect ==
    [][(/\ pc = "scan"
        /\ row_idx' = row_idx + 1
        /\ \E u \in Range(filtered_loops[row_idx + 1].user) :
              user_status[u] # "available")
       => UNCHANGED <<user_status, executed_loops, rejected_loops, user_trade_log,
                      user_history_tracker, trade_counter>>]_vars

\* the first row executed in the first period and the second row, which holds
\* one of its members and a user not yet offered anything, was passed over
C27_Witness ==
    /\ pc = "scan"
    /\ period = 0
    /\ row_idx = 2
    /\ Len(executed_loops) = 1
    /\ trade_counter = 1
    /\ Len(user_trade_log) = Len(filtered_loops[1].user)
    /\ \E u \in Range(filtered_loops[2].user) : user_status[u] = "matched"
    /\ \E u \in Range(filtered_loops[2].user) : u \notin DOMAIN user_history_tracker

(***************************************************************************)
(* The driver's bookkeeping (checked under Spec).                          *)
(***************************************************************************)
\* C28: in every period the distinct members of the executed rows number
\* 2 x (executed 2-way rows) + 3 x (executed 3-way rows), and they are the
\* users the scan marked matched, so the count the driver expects is the
\* count it finds; every summary row has Total Pool = Start Users + New Users
\* and End Users = Total Pool - Users Matched, and the users carried into the
\* next period (its Start Users) number the End Users of the period before.
C28_MatchedCountAndPoolChain ==
    /\ pc = "scan" =>
          LET rows == valid_trades_of(executed_loops)
              expected_matched == (count_type(rows, "2-way") * 2)
                                      + (count_type(rows, "3-way") * 3)
          IN  /\ Cardinality(matched_users_of(rows)) = expected_matched
              /\ Cardinality({u \in DOMAIN user_status : user_status[u] = "matched"})
                     = expected_matched
    /\ \A k \in 1..Len(period_summaries) :
          LET row == period_summaries[k]
          IN  /\ row.UsersMatched = (2 * row.Trades2Way) + (3 * row.Trades3Way)
              /\ row.TotalPool = row.StartUsers + row.NewUsers
              /\ row.EndUsers = row.TotalPool - row.UsersMatched
              /\ k < Len(period_summaries)
                    => period_summaries[k + 1].StartUsers = row.EndUsers
    /\ (pc \in {"period_start", "scan"} /\ Len(period_summaries) >= 1)
          => Len(carried_users_df) = period_summaries[Len(period_summaries)].EndUsers

\* the scan of the second period is over with a 3-way row executed, after a
\* first period that was summarised with users carried over
C28_Witness ==
    /\ ScanOver
    /\ period = 1
    /\ Len(period_summaries) = 1
    /\ period_summaries[1].EndUsers = Len(carried_users_df)
    /\ carried_users_df # <<>>
    /\ count_type(valid_trades_of(executed_loops), "3-way") = 1

(***************************************************************************)
(* Properties of find_matches (checked under FindMatchesSpec).             *)
(***************************************************************************)
UserRow(u) == df[CHOOSE i \in DOMAIN df : df[i].user_id = u]

AllUserIds == {df[i].user_id : i \in DOMAIN df}

Unmatched == AllUserIds \ UNION {Range(matches[k]) : k \in 1..Len(matches)}

ValidMatch(match) ==
    /\ Range(match) \subseteq AllUserIds
    /\ Cardinality(Range(match)) = Len(match)
    /\ \/ /\ Len(match) = 2
          /\ is_valid_two_way_trade(UserRow(match[1]), UserRow(match[2]))
       \/ /\ Len(match) = 3
          /\ is_valid_three_way_trade(UserRow(match[1]), UserRow(match[2]),
                                      UserRow(match[3]))

NoTradeAmong(users) ==
    /\ \A x \in users, y \in users :
          x # y => ~is_valid_two_way_trade(UserRow(x), UserRow(y))
    /\ \A x \in users, y \in users, z \in users :
          Cardinality({x, y, z}) = 3
              => ~is_valid_three_way_trade(UserRow(x), UserRow(y), UserRow(z))

\* C29: find_matches returns on every table, and what it returns are valid
\* 2-way or 3-way trades, pairwise disjoint in their users, with no valid
\* 2-way or 3-way trade left among the users in none of them.
C29_FindMatchesMaximal ==
    /\ [](pc = "returned" =>
            /\ \A k \in 1..Len(matches) : ValidMatch(matches[k])
            /\ \A i \in 1..Len(matches), j \in 1..Len(matches) :
                  i # j => Range(matches[i]) \cap Range(matches[j]) = {}
            /\ available_users = Unmatched
            /\ NoTradeAmong(Unmatched))
    /\ <>(pc = "returned")

\* a 3-way match was returned and one user is left unmatched
C29_Witness ==
    /\ pc = "returned"
    /\ \E k \in 1..Len(matches) : Len(matches[k]) = 3
    /\ Cardinality(Unmatched) = 1

(***************************************************************************)
(* Properties of the legacy round loop (checked under RoundSpec).          *)
(***************************************************************************)
StillAvailable == {u \in DOMAIN user_status : user_status[u] = "available"}

\* C30: the round loop exits on every table and for every outcome of the
\* draws: once the first loop of a round is behind, and so when the round is
\* over, at least one user that was available when the round began is matched
\* or declined; a matched or declined user keeps its status; so the loop is
\* left after finitely many rounds.
C30_RoundLoopTerminates ==
    /\ []((pc = "round_loops" /\ row_idx >= 1) =>
             /\ StillAvailable \subseteq available_users
             /\ StillAvailable # available_users)
    /\ [][\A u \in DOMAIN user_status :
             user_status[u] # "available" => user_status'[u] = user_status[u]]_vars
    /\ <>(pc = "exited")

\* the loop was left in the second round, after a round in which one loop was
\* rejected and another executed
C30_Witness ==
    /\ pc = "exited"
    /\ round_counter = 2
    /\ executed_loops # <<>>
    /\ rejected_loops # <<>>
    /\ \E u \in DOMAIN user_status : user_status[u] = "declined"

====
